---- MODULE Spec2Model ----
(***************************************************************************)
(* Model of librouteros/connections.py: the length codec (enclen, declen), *)
(* the word and sentence codec (encword, encsnt, decsnt), the transport    *)
(* ReaderWriter (readSock, writeSock, getLength, readSentence,             *)
(* writeSentence, close) and the Connection life cycle (close, __del__).   *)
(*                                                                         *)
(* Bytes are integers 0..255, byte strings are sequences of bytes, a str   *)
(* is a sequence of Unicode code points and a sentence a sequence of str.  *)
(* A Python call that may raise is modelled by a record                    *)
(* [exc, val]: exc = "none" and the returned value, or the exception kind. *)
(* 32-bit quantities that pass 2^31 (length | 0xE0000000) are kept as the  *)
(* four bytes struct.pack('!I', ...) produces, so no width is lost.        *)
(***************************************************************************)
EXTENDS Integers, Sequences, FiniteSets, TLC

(***************************************************************************)
(* Bounds of the model.                                                    *)
(***************************************************************************)
\* lengths tried around every tier boundary: boundary - Radius .. boundary + Radius
Radius == 2
\* most characters in a word
MaxChars == 2
\* most bytes the stream holds when readSock / writeSock are called directly
MaxWire == 3
\* largest length given to readSock directly
MaxRead == 3
\* longest buffer given to writeSock directly
MaxWrite == 3
\* most direct calls of readSock / writeSock in one run
MaxSockOps == 2
\* largest sentence given to writeSentence: its characters plus its words
MaxSntSize == 3
\* most calls of writeSentence / readSentence in one run on the loopback stream
MaxSntOps == 4
\* most bytes the peer has sent before the first call on a connection
MaxScript == 2
\* most calls on one connection in one run
MaxOps == 3
\* most bytes of a stream the peer has filled with sentences
MaxStream == 5
\* most bytes that follow a length prefix on the stream
MaxTail == 1
\* most calls of getLength / readSentence in one run on a filled stream
MaxWireOps == 2
\* timeouts are counted in ticks: TimeUnit ticks make one second
TimeUnit == 2

(***************************************************************************)
(* Program constants.                                                      *)
(***************************************************************************)
Tier1Limit == 128
Tier2Limit == 16384
Tier3Limit == 2097152
Tier4Limit == 268435456

\* characters used in words: NUL, '/', 'a', U+00E9 (2 bytes in UTF-8),
\* U+65E5 (3 bytes), U+1F600 (4 bytes)
Alphabet == {0, 47, 97, 233, 26085, 128512}

(***************************************************************************)
(* Byte helpers.                                                           *)
(***************************************************************************)
Byte == 0..255

RECURSIVE BitOr(_, _, _)
\* a | b on the low `w` bits
BitOr(a, b, w) ==
  IF w = 0 THEN 0
  ELSE (IF (a % 2) + (b % 2) > 0 THEN 1 ELSE 0) + 2 * BitOr(a \div 2, b \div 2, w - 1)

RECURSIVE BitXor(_, _, _)
\* a ^ b on the low `w` bits
BitXor(a, b, w) ==
  IF w = 0 THEN 0
  ELSE (((a % 2) + (b % 2)) % 2) + 2 * BitXor(a \div 2, b \div 2, w - 1)

\* struct.pack('!I', x): four bytes, big-endian, for 0 <= x < 2^31
pack_I(x) ==
  << (x \div 16777216) % 256, (x \div 65536) % 256, (x \div 256) % 256, x % 256 >>

\* struct.unpack('!I', bs)[0] for four bytes whose value is below 2^31
unpack_I(bs) == bs[1] * 16777216 + bs[2] * 65536 + bs[3] * 256 + bs[4]

\* bytes | mask and bytes ^ mask, byte by byte, on four-byte big-endian words
Or32(bs, mask) == [i \in 1..4 |-> BitOr(bs[i], mask[i], 8)]
Xor32(bs, mask) == [i \in 1..4 |-> BitXor(bs[i], mask[i], 8)]

Min(a, b) == IF a < b THEN a ELSE b

\* bs[offset:] for a negative offset -k: the last k items
LastBytes(bs, k) == SubSeq(bs, Len(bs) - k + 1, Len(bs))

\* s[k:] : s without its first k items
Drop(s, k) == SubSeq(s, k + 1, Len(s))

\* s[:k] : the first k items of s
Take(s, k) == SubSeq(s, 1, k)

RECURSIVE Concat(_)
\* b''.join( seq of byte strings )
Concat(ss) == IF ss = <<>> THEN <<>> ELSE Head(ss) \o Concat(Tail(ss))

Ok(v) == [exc |-> "none", val |-> v]
Raise(kind, info) == [exc |-> kind, val |-> info]

(***************************************************************************)
(* Length codec.                                                           *)
(***************************************************************************)
\* enclen that keeps 16384 in the two-byte tier
enclen_mut(length) ==
  IF length < Tier1Limit THEN
    IF length < 0 THEN Raise("struct.error", length)
    ELSE Ok(LastBytes(pack_I(length), 1))
  ELSE IF length <= Tier2Limit THEN
    Ok(LastBytes(Or32(pack_I(length), <<0, 0, 128, 0>>), 2))
  ELSE IF length < Tier3Limit THEN
    Ok(LastBytes(Or32(pack_I(length), <<0, 192, 0, 0>>), 3))
  ELSE IF length < Tier4Limit THEN
    Ok(LastBytes(Or32(pack_I(length), <<224, 0, 0, 0>>), 4))
  ELSE Raise("ConnError", [msg |-> "unable to encode length", value |-> length])

\* enclen( length ): the encoded length, or the exception raised.
\* A negative length takes the first branch and struct.pack rejects it.
enclen(length) ==
  IF length < Tier1Limit THEN
    IF length < 0 THEN Raise("struct.error", length)
    ELSE Ok(LastBytes(pack_I(length), 1))
  ELSE IF length < Tier2Limit THEN
    Ok(LastBytes(Or32(pack_I(length), <<0, 0, 128, 0>>), 2))
  ELSE IF length < Tier3Limit THEN
    Ok(LastBytes(Or32(pack_I(length), <<0, 192, 0, 0>>), 3))
  ELSE IF length < Tier4Limit THEN
    Ok(LastBytes(Or32(pack_I(length), <<224, 0, 0, 0>>), 4))
  ELSE Raise("ConnError", [msg |-> "unable to encode length", value |-> length])

\* declen with the mask of the two-byte tier used for three bytes as well
declen_mut(bytes_string) ==
  LET bytes_length == Len(bytes_string)
      offset == IF bytes_length < 2 THEN <<0, 0, 0>>
                ELSE IF bytes_length < 3 THEN <<0, 0>>
                ELSE IF bytes_length < 4 THEN <<0>>
                ELSE <<>>
      XOR == IF bytes_length < 2 THEN <<0, 0, 0, 0>>
             ELSE IF bytes_length < 4 THEN <<0, 0, 128, 0>>
             ELSE <<224, 0, 0, 0>>
      combined_bytes == offset \o bytes_string
  IN unpack_I(Xor32(combined_bytes, XOR))

\* declen( bytes_string ) for 1..4 bytes: pad to four bytes, XOR the tier mask
declen(bytes_string) ==
  LET bytes_length == Len(bytes_string)
      offset == IF bytes_length < 2 THEN <<0, 0, 0>>
                ELSE IF bytes_length < 3 THEN <<0, 0>>
                ELSE IF bytes_length < 4 THEN <<0>>
                ELSE <<>>
      XOR == IF bytes_length < 2 THEN <<0, 0, 0, 0>>
             ELSE IF bytes_length < 3 THEN <<0, 0, 128, 0>>
             ELSE IF bytes_length < 4 THEN <<0, 192, 0, 0>>
             ELSE <<224, 0, 0, 0>>
      combined_bytes == offset \o bytes_string
  IN unpack_I(Xor32(combined_bytes, XOR))

(***************************************************************************)
(* UTF-8, as str.encode('utf_8', 'strict') and bytes.decode('UTF-8',       *)
(* 'strict') compute it (code points here are never surrogates).           *)
(***************************************************************************)
utf8_char(cp) ==
  IF cp < 128 THEN << cp >>
  ELSE IF cp < 2048 THEN << 192 + (cp \div 64), 128 + (cp % 64) >>
  ELSE IF cp < 65536 THEN
    << 224 + (cp \div 4096), 128 + ((cp \div 64) % 64), 128 + (cp % 64) >>
  ELSE << 240 + (cp \div 262144), 128 + ((cp \div 4096) % 64),
          128 + ((cp \div 64) % 64), 128 + (cp % 64) >>

RECURSIVE utf8_encode(_)
utf8_encode(word) ==
  IF word = <<>> THEN <<>> ELSE utf8_char(Head(word)) \o utf8_encode(Tail(word))

IsCont(b) == b \in 128..191

RECURSIVE utf8_decode(_)
\* [ok, cps]: ok = FALSE stands for UnicodeDecodeError
utf8_decode(bs) ==
  IF bs = <<>> THEN [ok |-> TRUE, cps |-> <<>>]
  ELSE
    LET b1 == bs[1]
        n == IF b1 < 128 THEN 1
             ELSE IF b1 \in 194..223 THEN 2
             ELSE IF b1 \in 224..239 THEN 3
             ELSE IF b1 \in 240..244 THEN 4
             ELSE 0
        wellFormed ==
          /\ n > 0
          /\ Len(bs) >= n
          /\ \A i \in 2..n : IsCont(bs[i])
          /\ (b1 = 224) => bs[2] >= 160
          /\ (b1 = 237) => bs[2] <= 159
          /\ (b1 = 240) => bs[2] >= 144
          /\ (b1 = 244) => bs[2] <= 143
        cp == IF n = 1 THEN b1
              ELSE IF n = 2 THEN (b1 - 192) * 64 + (bs[2] - 128)
              ELSE IF n = 3 THEN (b1 - 224) * 4096 + (bs[2] - 128) * 64 + (bs[3] - 128)
              ELSE (b1 - 240) * 262144 + (bs[2] - 128) * 4096
                   + (bs[3] - 128) * 64 + (bs[4] - 128)
    IN IF ~wellFormed THEN [ok |-> FALSE, cps |-> <<>>]
       ELSE LET rest == utf8_decode(Drop(bs, n))
            IN [ok |-> rest.ok, cps |-> IF rest.ok THEN <<cp>> \o rest.cps ELSE <<>>]

(***************************************************************************)
(* Word and sentence codec.                                                *)
(***************************************************************************)
\* encword( word ): enclen( len( word ) ) + word.encode(...);
\* len( word ) is the number of characters of the str
encword(word) ==
  LET encoded_len == enclen(Len(word))
      encoded_word == utf8_encode(word)
  IN IF encoded_len.exc # "none" THEN encoded_len
     ELSE Ok(encoded_len.val \o encoded_word)

\* encsnt( sentence ): the encoded words joined, then the EOS byte
encsnt(sentence) ==
  LET encoded == [i \in 1..Len(sentence) |-> encword(sentence[i])]
      bad == {i \in 1..Len(sentence) : encoded[i].exc # "none"}
  IN IF bad # {} THEN encoded[CHOOSE i \in bad : \A j \in bad : i <= j]
     ELSE Ok(Concat([i \in 1..Len(sentence) |-> encoded[i].val]) \o <<0>>)

\* decsnt that returns the decoded words last word first
decsnt_mut(sentence) ==
  LET decoded == [i \in 1..Len(sentence) |-> utf8_decode(sentence[i])]
  IN IF \E i \in 1..Len(sentence) : ~decoded[i].ok
     THEN Raise("UnicodeDecodeError", sentence)
     ELSE Ok([i \in 1..Len(sentence) |-> decoded[Len(sentence) + 1 - i].cps])

\* decsnt( sentence ): every raw word decoded as strict UTF-8
decsnt(sentence) ==
  LET decoded == [i \in 1..Len(sentence) |-> utf8_decode(sentence[i])]
  IN IF \E i \in 1..Len(sentence) : ~decoded[i].ok
     THEN Raise("UnicodeDecodeError", sentence)
     ELSE Ok([i \in 1..Len(sentence) |-> decoded[i].cps])


(***************************************************************************)
(* Exception kinds.  ConnError and LibError come from librouteros.exc:     *)
(* ConnError is a LibError; struct.error and UnicodeDecodeError are not.   *)
(***************************************************************************)
IsLibError(kind) == kind \in {"ConnError", "LibError"}

(***************************************************************************)
(* State.                                                                  *)
(*   wire   bytes the stream will deliver to sock.recv, in order; the far  *)
(*          end reflects what sock.send accepts (a loopback peer), after   *)
(*          the bytes the peer had already sent                            *)
(*   sock   the socket object: _closed, its timeout, and how often         *)
(*          shutdown() and close() were called on it                       *)
(*   ctl    the call in progress: op is the method the caller invoked, pc  *)
(*          the underlying call it is about to make, rd / wr the locals of *)
(*          readSock / writeSock, sentence and first_byte the locals of    *)
(*          readSentence and getLength; the other fields record what the   *)
(*          stream saw during the call (wire0: what it held when readSock  *)
(*          was called, delivered, accepted, req, lastFault,               *)
(*          shutdownRaised) and the outcome of the call when it has ended  *)
(*          (result)                                                       *)
(*   calls  the number of calls the user has made                          *)
(*   written  the sentences writeSentence was given and readSentence has   *)
(*          not yet been asked for, oldest first                           *)
(*   lastIO the most recent underlying recv / send                         *)
(*   lost   the stream refused to deliver or accept bytes it held          *)
(*   cin, cout  input and outputs of the pure codec functions              *)
(***************************************************************************)
VARIABLES wire, sock, ctl, calls, written, lastIO, lost, cin, cout

vars == << wire, sock, ctl, calls, written, lastIO, lost, cin, cout >>

(***************************************************************************)
(* ReaderWriter.readSock: locals and loop body.                            *)
(***************************************************************************)
\* return_string = b'' ; to_read = length ; total_bytes_read = 0
readSock_begin(length) ==
  [length |-> length, to_read |-> length, return_string |-> <<>>,
   total_bytes_read |-> 0]

\* recv asked for the whole length on every pass
recv_arg_mut(rd) == rd.length

\* the size passed to self.sock.recv
recv_arg(rd) == rd.to_read

\* readSock that never counts down what it has read
readSock_after_mut(rd, read) ==
  LET to_read == rd.to_read
  IN [rd EXCEPT !.return_string = @ \o read,
                !.to_read = to_read,
                !.total_bytes_read = rd.length - to_read]

\* return_string += read ; to_read -= len( read ) ;
\* total_bytes_read = length - to_read
readSock_after(rd, read) ==
  LET to_read == rd.to_read - Len(read)
  IN [rd EXCEPT !.return_string = @ \o read,
                !.to_read = to_read,
                !.total_bytes_read = rd.length - to_read]

\* the ConnError raised by readSock for each cause
readSock_error(rd, cause) ==
  IF cause = "eof" THEN
    Raise("ConnError", [msg |-> "connection unexpectedly closed. read", counted |-> TRUE,
                        count |-> rd.total_bytes_read, total |-> rd.length])
  ELSE IF cause = "timeout" THEN
    Raise("ConnError", [msg |-> "socket timed out. read", counted |-> TRUE,
                        count |-> rd.total_bytes_read, total |-> rd.length])
  ELSE
    Raise("ConnError", [msg |-> "failed to read from socket", counted |-> FALSE,
                        count |-> 0, total |-> 0])

(***************************************************************************)
(* ReaderWriter.writeSock: locals and loop body.                           *)
(***************************************************************************)
\* string_length = len( string ) ; total_bytes_sent = 0
writeSock_begin(string) ==
  [string |-> string, string_length |-> Len(string), total_bytes_sent |-> 0]

\* writeSock that drops one byte per pass whatever send accepted
writeSock_after_mut(wr, sent) ==
  LET string == Drop(wr.string, Min(sent, 1))
  IN [wr EXCEPT !.string = string,
                !.total_bytes_sent = wr.string_length - Len(string)]

\* string = string[sent:] ; total_bytes_sent = string_length - len( string )
writeSock_after(wr, sent) ==
  LET string == Drop(wr.string, sent)
  IN [wr EXCEPT !.string = string,
                !.total_bytes_sent = wr.string_length - Len(string)]

\* the ConnError raised by writeSock for each cause
writeSock_error(wr, cause) ==
  IF cause = "eof" THEN
    Raise("ConnError", [msg |-> "connection unexpectedly closed. sent", counted |-> TRUE,
                        count |-> wr.total_bytes_sent, total |-> wr.string_length])
  ELSE IF cause = "timeout" THEN
    Raise("ConnError", [msg |-> "socket timed out. sent", counted |-> TRUE,
                        count |-> wr.total_bytes_sent, total |-> wr.string_length])
  ELSE
    Raise("ConnError", [msg |-> "failed to write to socket", counted |-> FALSE,
                        count |-> 0, total |-> 0])

(***************************************************************************)
(* ReaderWriter.getLength: classification of the first byte.               *)
(***************************************************************************)
\* a classification that takes 0xF0 for the first byte of a four-byte length
getLength_bytes_to_read_mut(first_byte_int) ==
  IF first_byte_int < 128 THEN Ok(0)
  ELSE IF first_byte_int < 192 THEN Ok(1)
  ELSE IF first_byte_int < 224 THEN Ok(2)
  ELSE IF first_byte_int <= 240 THEN Ok(3)
  ELSE Raise("ConnError", [msg |-> "unknown controll byte received", counted |-> FALSE,
                           count |-> 0, total |-> first_byte_int])

getLength_bytes_to_read(first_byte_int) ==
  IF first_byte_int < 128 THEN Ok(0)
  ELSE IF first_byte_int < 192 THEN Ok(1)
  ELSE IF first_byte_int < 224 THEN Ok(2)
  ELSE IF first_byte_int < 240 THEN Ok(3)
  ELSE Raise("ConnError", [msg |-> "unknown controll byte received", counted |-> FALSE,
                           count |-> 0, total |-> first_byte_int])

(***************************************************************************)
(* ReaderWriter.close on the socket object.  shutdownRaises: whether       *)
(* sock.shutdown raises socket.error this time.                            *)
(***************************************************************************)
\* close() that is skipped when shutdown raises
ReaderWriter_close_mut(s, shutdownRaises) ==
  IF s.closed THEN s
  ELSE IF shutdownRaises THEN [s EXCEPT !.shutdowns = @ + 1]
  ELSE [s EXCEPT !.shutdowns = @ + 1, !.closes = @ + 1, !.closed = TRUE]

ReaderWriter_close(s, shutdownRaises) ==
  IF s.closed THEN s
  ELSE [s EXCEPT !.shutdowns = @ + 1, !.closes = @ + 1, !.closed = TRUE]

(***************************************************************************)
(* Connection.timeout.  `value` is in ticks; the result is what the        *)
(* setter returns or raises and the socket object as the setter leaves it. *)
(***************************************************************************)
\* the socket object of a connection just made: open, with a timeout of 10 s
NewSock ==
  [closed |-> FALSE, shutdowns |-> 0, closes |-> 0,
   timeout |-> 10 * TimeUnit, settimeouts |-> 0]

\* sock.settimeout( value ): the socket object stores the value, then sets
\* the mode of its descriptor, which raises socket.error on a closed socket
sock_settimeout(s, value) ==
  IF s.closed
  THEN [res |-> Raise("socket.error", [msg |-> "Bad file descriptor", counted |-> FALSE,
                                       count |-> 0, total |-> 0]),
        sock |-> [s EXCEPT !.settimeouts = @ + 1, !.timeout = value]]
  ELSE [res |-> Ok(<<>>),
        sock |-> [s EXCEPT !.settimeouts = @ + 1, !.timeout = value]]

\* a setter that hands the value to the socket before it validates it
set_timeout_mut(s, value) ==
  LET applied == sock_settimeout(s, value)
  IN IF value < 1 * TimeUnit
     THEN [res |-> Raise("ValueError", [msg |-> "timeout must be greater than 0",
                                        counted |-> FALSE, count |-> 0, total |-> 0]),
           sock |-> applied.sock]
     ELSE applied

\* Connection._set_timeout( value ): if value < 1: raise ValueError
set_timeout(s, value) ==
  IF value < 1 * TimeUnit
  THEN [res |-> Raise("ValueError", [msg |-> "timeout must be greater than 0",
                                     counted |-> FALSE, count |-> 0, total |-> 0]),
        sock |-> s]
  ELSE sock_settimeout(s, value)

\* Connection._get_timeout(): self.drv.conn.sock.gettimeout()
get_timeout(s) == Ok(s.timeout)


(***************************************************************************)
(* Control flow between two underlying calls.  Each operator takes the     *)
(* control record and returns it as it stands when the code reaches the    *)
(* next sock.recv / sock.send, the teardown of Connection.close, or the    *)
(* end of the caller's call.                                               *)
(***************************************************************************)
NoFault == [set |-> FALSE, io |-> "none", cause |-> "none", k |-> 0, n |-> 0,
            err |-> Ok(<<>>)]

InitCtl ==
  [op |-> "none", stage |-> "none", pc |-> "idle", ctx |-> "none",
   rd |-> readSock_begin(0), wr |-> writeSock_begin(<<>>),
   sentence |-> <<>>, first_byte |-> <<>>, pending |-> Ok(<<>>),
   delivered |-> <<>>, accepted |-> <<>>, given |-> <<>>,
   req |-> [arg |-> 0, missing |-> 0], recvs |-> 0, sends |-> 0,
   lastFault |-> NoFault, faulted |-> FALSE,
   wire0 |-> <<>>, shutdownRaised |-> FALSE,
   expected |-> [set |-> FALSE, snt |-> <<>>],
   result |-> [set |-> FALSE, exc |-> "none", val |-> <<>>],
   tmo |-> [arg |-> 0, before |-> NewSock],
   quitAttempts |-> 0, closesDone |-> 0, deleted |-> FALSE]

\* the control record when the user calls `op`: nothing is left of the
\* previous call but the counters
NewCall(c, op) ==
  [InitCtl EXCEPT !.op = op, !.faulted = c.faulted, !.quitAttempts = c.quitAttempts,
                  !.closesDone = c.closesDone, !.deleted = c.deleted]

\* the caller's call ends: it returns res.val or raises res.exc
Finish(c, res) ==
  [c EXCEPT !.pc = "idle", !.stage = "none",
            !.result = [set |-> TRUE, exc |-> res.exc, val |-> res.val]]

RECURSIVE Outcome(_, _), StartRead(_, _, _), ReadReturned(_, _), GetLengthDone(_, _)

\* readSock( length ) is entered for the purpose ctx: "direct" (called by the
\* user), "first_byte" and "additional" (getLength), "word" (readSentence)
StartRead(c, ctx, length) ==
  LET c1 == [c EXCEPT !.ctx = ctx, !.rd = readSock_begin(length),
                      !.delivered = <<>>, !.recvs = 0]
  IN IF c1.rd.to_read # 0 THEN [c1 EXCEPT !.pc = "recv"]
     ELSE ReadReturned(c1, c1.rd.return_string)

\* readSock returns ret to getLength, readSentence or the user
ReadReturned(c, ret) ==
  LET c1 == c
  IN IF c.ctx = "direct" THEN Outcome(c1, Ok(ret))
     ELSE IF c.ctx = "first_byte" THEN
       LET bytes_to_read == getLength_bytes_to_read(ret[1])
       IN IF bytes_to_read.exc # "none" THEN GetLengthDone(c1, bytes_to_read)
          ELSE StartRead([c1 EXCEPT !.first_byte = ret], "additional", bytes_to_read.val)
     ELSE IF c.ctx = "additional" THEN
       GetLengthDone(c1, Ok(declen(c.first_byte \o ret)))
     ELSE \* "word": sentence.append( word ) ; to_read = self.getLength()
       StartRead([c1 EXCEPT !.sentence = Append(@, ret)], "first_byte", 1)

\* getLength returns or raises: to its user, or into the loop of readSentence
GetLengthDone(c, res) ==
  IF c.op = "getLength" \/ res.exc # "none" THEN Outcome(c, res)
  ELSE IF res.val # 0 THEN StartRead(c, "word", res.val)
  ELSE Outcome(c, decsnt(c.sentence))

\* the transport call made by the caller, or by a stage of Connection.close,
\* returned or raised res
Outcome(c, res) ==
  IF c.op = "close" THEN
    IF c.stage = "quit_write" /\ res.exc = "none" THEN
      \* _send_quit goes on: self.drv.readSnt()
      StartRead([c EXCEPT !.stage = "quit_read", !.sentence = <<>>], "first_byte", 1)
    ELSE
      \* except LibError: pass ; finally: self.drv.close()
      [c EXCEPT !.stage = "finally", !.pc = "teardown",
                !.pending = IF res.exc = "none" \/ IsLibError(res.exc)
                            THEN Ok(<<>>) ELSE res]
  ELSE Finish(c, res)

\* readSock raises for `cause`
ReadRaised(c, cause) ==
  LET err == readSock_error(c.rd, cause)
  IN Outcome([c EXCEPT !.faulted = TRUE,
                       !.lastFault = [set |-> TRUE, io |-> "read", cause |-> cause,
                                       k |-> Len(c.delivered), n |-> c.rd.length,
                                       err |-> err]], err)

\* one pass of the loop of readSock: sock.recv( to_read ) ended as `out`,
\* delivering `read`
AfterRecv(c, out, read) ==
  LET c0 == [c EXCEPT !.req = [arg |-> recv_arg(c.rd),
                               missing |-> c.rd.length - Len(c.delivered)],
                      !.recvs = @ + 1]
  IN IF out.kind = "data" THEN
       LET rd == readSock_after(c.rd, read)
           c1 == [c0 EXCEPT !.rd = rd, !.delivered = @ \o read]
       IN IF rd.to_read # 0 THEN c1 ELSE ReadReturned(c1, rd.return_string)
     ELSE IF out.kind = "eof" THEN
       ReadRaised([c0 EXCEPT !.rd = readSock_after(c.rd, <<>>)], "eof")
     ELSE ReadRaised(c0, out.kind)

\* writeSock returns
WriteReturned(c) ==
  Outcome(c, Ok(<<>>))

\* writeSock( string ) is entered
StartWrite(c, string) ==
  LET c1 == [c EXCEPT !.wr = writeSock_begin(string), !.given = string,
                      !.accepted = <<>>, !.sends = 0]
  IN IF c1.wr.string # <<>> THEN [c1 EXCEPT !.pc = "send"] ELSE WriteReturned(c1)

\* writeSock raises for `cause`
WriteRaised(c, cause) ==
  LET err == writeSock_error(c.wr, cause)
  IN Outcome([c EXCEPT !.faulted = TRUE,
                       !.lastFault = [set |-> TRUE, io |-> "write", cause |-> cause,
                                       k |-> Len(c.accepted), n |-> Len(c.given),
                                       err |-> err]], err)

\* a pass of writeSock that takes a timeout of send for the end of the string
AfterSend_mut(c, out) ==
  LET c0 == [c EXCEPT !.sends = @ + 1]
  IN IF out.kind = "data" THEN
       LET wr == writeSock_after(c.wr, out.n)
           c1 == [c0 EXCEPT !.wr = wr, !.accepted = @ \o Take(c.wr.string, out.n)]
       IN IF wr.string # <<>> THEN c1 ELSE WriteReturned(c1)
     ELSE IF out.kind = "eof" THEN
       WriteRaised([c0 EXCEPT !.wr = writeSock_after(c.wr, 0)], "eof")
     ELSE IF out.kind = "timeout" THEN WriteReturned(c0)
     ELSE WriteRaised(c0, out.kind)

\* one pass of the loop of writeSock: sock.send( string ) ended as `out`
AfterSend(c, out) ==
  LET c0 == [c EXCEPT !.sends = @ + 1]
  IN IF out.kind = "data" THEN
       LET wr == writeSock_after(c.wr, out.n)
           c1 == [c0 EXCEPT !.wr = wr, !.accepted = @ \o Take(c.wr.string, out.n)]
       IN IF wr.string # <<>> THEN c1 ELSE WriteReturned(c1)
     ELSE IF out.kind = "eof" THEN
       WriteRaised([c0 EXCEPT !.wr = writeSock_after(c.wr, 0)], "eof")
     ELSE WriteRaised(c0, out.kind)

\* ReaderWriter.writeSentence( sentence )
writeSentence(c, sentence) ==
  LET encoded == encsnt(sentence)
  IN IF encoded.exc # "none" THEN Outcome(c, encoded) ELSE StartWrite(c, encoded.val)

\* ReaderWriter.getLength(): first_byte = self.readSock( 1 )
getLength(c) == StartRead(c, "first_byte", 1)

\* ReaderWriter.readSentence(): sentence = [] ; to_read = self.getLength()
readSentence(c) == StartRead([c EXCEPT !.sentence = <<>>], "first_byte", 1)

\* the driver's writeSnt( lvl, args ) hands (lvl,) + args to writeSentence
drv_writeSnt(c, lvl, args) == writeSentence(c, <<lvl>> \o args)

\* '/quit'
QuitWord == <<47, 113, 117, 105, 116>>

\* Connection._send_quit: self.drv.writeSnt( '/quit', () ), then readSnt()
send_quit(c) ==
  drv_writeSnt([c EXCEPT !.stage = "quit_write", !.quitAttempts = @ + 1], QuitWord, <<>>)


(***************************************************************************)
(* Inputs.                                                                 *)
(***************************************************************************)
\* all sequences over S of length 0..n
SeqsUpTo(S, n) == UNION {[1..k -> S] : k \in 0..n}

\* lengths given to enclen: around every tier boundary
LenInputs ==
  UNION {(b - Radius)..(b + Radius) :
         b \in {0, Tier1Limit, Tier2Limit, Tier3Limit, Tier4Limit}}

\* words given to encword
WordInputs == SeqsUpTo(Alphabet, MaxChars)

\* timeouts given to the setter, in ticks: around 0 s and around 1 s
TimeoutInputs == (0 - Radius)..(TimeUnit + Radius)

\* bytes of the wire and of the buffers given to readSock / writeSock directly
SockBytes == {7, 9}
SockWires == SeqsUpTo(SockBytes, MaxWire)
BufInputs == SeqsUpTo(SockBytes, MaxWrite)

\* sentences written through writeSentence: words over 'a' and U+00E9
IOAlphabet == {97, 233}
RECURSIVE SentencesOfSize(_)
\* the sentences whose characters and words together number at most n
SentencesOfSize(n) ==
  IF n <= 0 THEN {<<>>}
  ELSE {<<>>} \cup
       UNION {{<<w>> \o s : s \in SentencesOfSize(n - Len(w) - 1)} :
              w \in SeqsUpTo(IOAlphabet, n - 1)}
SntInputs == SentencesOfSize(MaxSntSize)

\* the sentences among them whose words are ASCII, the empty word included
AsciiSntInputs ==
  {s \in SntInputs : \A i \in 1..Len(s) : \A j \in 1..Len(s[i]) : s[i][j] < 128}

\* what the peer has sent before the first call of a connection: the
\* terminator, a length prefix of 1, an unknown control byte (0xF0) and a
\* byte no UTF-8 text contains (0xFF)
ScriptBytes == {0, 1, 240, 255}
PeerScripts == SeqsUpTo(ScriptBytes, MaxScript)

\* streams that begin with an encoded length or with a control byte no
\* length begins with (0xF0-0xFF), followed by a few bytes
TailBytes == {0, 9}
Tails == SeqsUpTo(TailBytes, MaxTail)
ControlBytes == (240..(240 + Radius)) \cup ((255 - Radius)..255)
LenStreams ==
  {enclen(n).val \o t : n \in {m \in LenInputs : enclen(m).exc = "none"}, t \in Tails}
  \cup {<<b>> \o t : b \in ControlBytes, t \in Tails}

\* streams of sentences the peer has sent: the terminator, the length
\* prefix 1, 'a' and a byte no UTF-8 text contains (0xFF)
StreamBytes == {0, 1, 97, 255}
SntStreams == SeqsUpTo(StreamBytes, MaxStream)

\* sentences written on a connection by its user
ConnSentences == {<<>>, << <<97>> >>}

(***************************************************************************)
(* The stream.  An open socket delivers or accepts at least one byte and   *)
(* at most what was asked, or returns nothing, or raises socket.timeout or *)
(* socket.error; a closed socket raises socket.error on every call.        *)
(***************************************************************************)
Faults == {[kind |-> "eof", n |-> 0], [kind |-> "timeout", n |-> 0],
           [kind |-> "error", n |-> 0]}

RecvOutcomes(size) ==
  IF sock.closed THEN {[kind |-> "error", n |-> 0]}
  ELSE {[kind |-> "data", n |-> k] : k \in 1..Min(size, Len(wire))} \cup Faults

SendOutcomes(string) ==
  IF sock.closed THEN {[kind |-> "error", n |-> 0]}
  ELSE {[kind |-> "data", n |-> k] : k \in 1..Len(string)} \cup Faults

(***************************************************************************)
(* Initial states.                                                         *)
(***************************************************************************)
NoCodec == [length |-> 0, word |-> <<>>]
NoOut == [encDone |-> FALSE, enc |-> Ok(<<>>), decDone |-> FALSE, dec |-> 0,
          wordDone |-> FALSE, encword |-> Ok(<<>>)]

InitCommon ==
  /\ sock = NewSock
  /\ ctl = InitCtl
  /\ calls = 0
  /\ written = <<>>
  /\ lastIO = [set |-> FALSE, call |-> "none", op |-> "none", closed |-> FALSE]
  /\ lost = FALSE
  /\ cout = NoOut

\* a connection whose peer has already sent some bytes
Init ==
  /\ InitCommon
  /\ wire \in PeerScripts
  /\ cin = NoCodec

\* a transport on a fresh loopback stream
InitSnt ==
  /\ InitCommon
  /\ wire = <<>>
  /\ cin = NoCodec

\* a transport on a stream that holds some bytes
InitSock ==
  /\ InitCommon
  /\ wire \in SockWires
  /\ cin = NoCodec

\* a transport on a stream the peer has filled
InitWire ==
  /\ InitCommon
  /\ wire \in LenStreams \cup SntStreams
  /\ cin = NoCodec

\* a connection whose user sets and gets the timeout
InitTimeout ==
  /\ InitCommon
  /\ wire = <<>>
  /\ cin = NoCodec

\* the pure codec functions on one input
InitCodec ==
  /\ InitCommon
  /\ wire = <<>>
  /\ cin \in [length : LenInputs, word : WordInputs]

(***************************************************************************)
(* Actions of the codec specification.                                     *)
(***************************************************************************)
DoEnclen ==
  /\ ~cout.encDone
  /\ cout' = [cout EXCEPT !.encDone = TRUE, !.enc = enclen(cin.length)]
  /\ UNCHANGED << wire, sock, ctl, calls, written, lastIO, lost, cin >>

DoDeclen ==
  /\ cout.encDone /\ cout.enc.exc = "none" /\ ~cout.decDone
  /\ cout' = [cout EXCEPT !.decDone = TRUE, !.dec = declen(cout.enc.val)]
  /\ UNCHANGED << wire, sock, ctl, calls, written, lastIO, lost, cin >>

DoEncword ==
  /\ ~cout.wordDone
  /\ cout' = [cout EXCEPT !.wordDone = TRUE, !.encword = encword(cin.word)]
  /\ UNCHANGED << wire, sock, ctl, calls, written, lastIO, lost, cin >>

(***************************************************************************)
(* Calls made by the user of the transport and of the connection.          *)
(***************************************************************************)
\* the user calls something when no call is in progress; after a fault of
\* the stream the user gives the transport up and may only close it
MayCall(max) == ctl.pc = "idle" /\ calls < max /\ ~ctl.faulted

MayClose == ctl.pc = "idle" /\ calls < MaxOps

Called == calls' = calls + 1

CallReadSock(n) ==
  /\ MayCall(MaxSockOps)
  /\ ctl' = StartRead([NewCall(ctl, "readSock") EXCEPT !.wire0 = wire], "direct", n)
  /\ Called
  /\ UNCHANGED << wire, sock, written, lastIO, lost, cin, cout >>

CallWriteSock(b) ==
  /\ MayCall(MaxSockOps)
  /\ ctl' = StartWrite(NewCall(ctl, "writeSock"), b)
  /\ Called
  /\ UNCHANGED << wire, sock, written, lastIO, lost, cin, cout >>

\* the user reads back what it wrote: of `max` calls at most half are
\* sentences written and not yet asked for
MaxPending(max) == max \div 2

CallWriteSentence(s, max) ==
  /\ MayCall(max)
  /\ Len(written) < MaxPending(max)
  /\ ctl' = writeSentence(NewCall(ctl, "writeSentence"), s)
  /\ written' = Append(written, s)
  /\ Called
  /\ UNCHANGED << wire, sock, lastIO, lost, cin, cout >>

CallReadSentence(max) ==
  /\ MayCall(max)
  /\ ctl' = readSentence([NewCall(ctl, "readSentence") EXCEPT
                            !.wire0 = wire,
                            !.expected = IF written = <<>> THEN @
                                         ELSE [set |-> TRUE, snt |-> Head(written)]])
  /\ written' = IF written = <<>> THEN written ELSE Tail(written)
  /\ Called
  /\ UNCHANGED << wire, sock, lastIO, lost, cin, cout >>

CallGetLength ==
  /\ MayCall(MaxWireOps)
  /\ ctl' = getLength([NewCall(ctl, "getLength") EXCEPT !.wire0 = wire])
  /\ Called
  /\ UNCHANGED << wire, sock, written, lastIO, lost, cin, cout >>

\* ReaderWriter.close()
CallRWClose ==
  /\ MayClose
  /\ \E shutdownRaises \in BOOLEAN :
       /\ sock' = ReaderWriter_close(sock, shutdownRaises)
       /\ ctl' = Finish([NewCall(ctl, "rwclose") EXCEPT
                           !.shutdownRaised = ~sock.closed /\ shutdownRaises],
                        Ok(<<>>))
  /\ Called
  /\ UNCHANGED << wire, written, lastIO, lost, cin, cout >>

\* conn.timeout = value
CallSetTimeout(value) ==
  /\ MayClose
  /\ LET set == set_timeout(sock, value)
     IN /\ sock' = set.sock
        /\ ctl' = Finish([NewCall(ctl, "set_timeout") EXCEPT
                            !.tmo = [arg |-> value, before |-> sock]], set.res)
  /\ Called
  /\ UNCHANGED << wire, written, lastIO, lost, cin, cout >>

\* conn.timeout
CallGetTimeout ==
  /\ MayClose
  /\ ctl' = Finish(NewCall(ctl, "get_timeout"), get_timeout(sock))
  /\ Called
  /\ UNCHANGED << wire, sock, written, lastIO, lost, cin, cout >>

Finalized == ctl.deleted

\* Connection.close(): try: self._send_quit() ...
CallClose ==
  /\ MayClose
  /\ ~Finalized
  /\ ctl' = send_quit(NewCall(ctl, "close"))
  /\ Called
  /\ UNCHANGED << wire, sock, written, lastIO, lost, cin, cout >>

\* Connection.__del__(): self.close(), once, as the last call on the connection
CallDel ==
  /\ MayClose
  /\ ~Finalized
  /\ ctl' = send_quit([NewCall(ctl, "close") EXCEPT !.deleted = TRUE])
  /\ Called
  /\ UNCHANGED << wire, sock, written, lastIO, lost, cin, cout >>

(***************************************************************************)
(* Steps of a call in progress.                                            *)
(***************************************************************************)
\* self.sock.recv( to_read ) and the code up to the next underlying call
Recv ==
  /\ ctl.pc = "recv"
  /\ \E out \in RecvOutcomes(recv_arg(ctl.rd)) :
       /\ ctl' = AfterRecv(ctl, out, Take(wire, out.n))
       /\ wire' = Drop(wire, out.n)
       /\ lost' = (lost \/ (out.kind # "data" /\ (wire # <<>> \/ sock.closed)))
  /\ lastIO' = [set |-> TRUE, call |-> "recv", op |-> ctl.op, closed |-> sock.closed]
  /\ UNCHANGED << sock, calls, written, cin, cout >>

\* self.sock.send( string ) and the code up to the next underlying call
Send ==
  /\ ctl.pc = "send"
  /\ \E out \in SendOutcomes(ctl.wr.string) :
       /\ ctl' = AfterSend(ctl, out)
       /\ wire' = wire \o Take(ctl.wr.string, out.n)
       /\ lost' = (lost \/ out.kind # "data")
  /\ lastIO' = [set |-> TRUE, call |-> "send", op |-> ctl.op, closed |-> sock.closed]
  /\ UNCHANGED << sock, calls, written, cin, cout >>

\* the driver's close() is ReaderWriter.close()
drv_close(s, shutdownRaises) == ReaderWriter_close(s, shutdownRaises)

\* finally: self.drv.close(), then close() returns or lets the exception go
Teardown ==
  /\ ctl.pc = "teardown"
  /\ \E shutdownRaises \in BOOLEAN :
       /\ sock' = drv_close(sock, shutdownRaises)
       /\ ctl' = Finish([ctl EXCEPT !.closesDone = @ + 1,
                                    !.shutdownRaised = ~sock.closed /\ shutdownRaises],
                        ctl.pending)
  /\ UNCHANGED << wire, calls, written, lastIO, lost, cin, cout >>

(***************************************************************************)
(* Specifications.                                                         *)
(***************************************************************************)
\* the connection and its transport, closing included
Next ==
  \/ CallClose
  \/ CallDel
  \/ CallRWClose
  \/ CallReadSentence(MaxOps)
  \/ \E s \in ConnSentences : CallWriteSentence(s, MaxOps)
  \/ Recv
  \/ Send
  \/ Teardown

Spec == Init /\ [][Next]_vars

\* sentences written to and read from a loopback stream
NextSnt ==
  \/ \E s \in SntInputs : CallWriteSentence(s, MaxSntOps)
  \/ CallReadSentence(MaxSntOps)
  \/ Recv
  \/ Send

SpecSnt == InitSnt /\ [][NextSnt]_vars

\* sentences of ASCII words written to and read from a loopback stream
NextAscii ==
  \/ \E s \in AsciiSntInputs : CallWriteSentence(s, MaxSntOps)
  \/ CallReadSentence(MaxSntOps)
  \/ Recv
  \/ Send

SpecAscii == InitSnt /\ [][NextAscii]_vars

\* readSock and writeSock called directly
NextSock ==
  \/ \E n \in 0..MaxRead : CallReadSock(n)
  \/ \E b \in BufInputs : CallWriteSock(b)
  \/ Recv
  \/ Send

SpecSock == InitSock /\ [][NextSock]_vars

\* getLength and readSentence on a stream the peer has filled
NextWire ==
  \/ CallGetLength
  \/ CallReadSentence(MaxWireOps)
  \/ Recv

SpecWire == InitWire /\ [][NextWire]_vars

\* the timeout of a connection, set and read, on an open or closed transport
NextTimeout ==
  \/ \E value \in TimeoutInputs : CallSetTimeout(value)
  \/ CallGetTimeout
  \/ CallRWClose

SpecTimeout == InitTimeout /\ [][NextTimeout]_vars

\* the pure codec
NextCodec ==
  \/ DoEnclen
  \/ DoDeclen
  \/ DoEncword

SpecCodec == InitCodec /\ [][NextCodec]_vars


(***************************************************************************)
(* Properties.                                                             *)
(***************************************************************************)
Returned(op) == ctl.op = op /\ ctl.pc = "idle" /\ ctl.result.set /\ ctl.result.exc = "none"
Ended(op) == ctl.op = op /\ ctl.pc = "idle" /\ ctl.result.set

NonEmptyWords(snt) == \A i \in 1..Len(snt) : snt[i] # <<>>

\* C1: on a fresh lossless stream, writeSentence of a sentence of non-empty
\* words followed by readSentence: readSentence returns exactly the words
\* written, in their order, characters of several UTF-8 bytes included.
C1_SentenceRoundTrip ==
  (/\ Ended("readSentence")
   /\ calls = 2
   /\ ctl.expected.set
   /\ NonEmptyWords(ctl.expected.snt)
   /\ ~lost)
  => (ctl.result.exc = "none" /\ ctl.result.val = ctl.expected.snt)

\* C2: the length prefix of encword( word ), read as getLength reads it,
\* equals the number of bytes that follow it in the encoded word.
C2_PrefixCountsBytes ==
  (cout.wordDone /\ cout.encword.exc = "none")
  => LET out == cout.encword.val
         width == 1 + getLength_bytes_to_read(out[1]).val
     IN declen(Take(out, width)) = Len(out) - width

\* C3: for every length n with 0 <= n < 268435456, declen( enclen( n ) ) = n.
C3_LengthRoundTrip ==
  (cout.decDone /\ 0 <= cin.length /\ cin.length < Tier4Limit)
  => cout.dec = cin.length

\* a length of the four-byte tier has been encoded and decoded
C3_Witness ==
  /\ cout.decDone
  /\ cin.length = Tier4Limit - 1
  /\ Len(cout.enc.val) = 4

\* C4: readSock( n ) never asks an underlying read for more than the bytes
\* still missing, and when it returns it returns the n bytes the stream held
\* first, in order, leaving all later bytes in the stream.
C4_ReadSockExact ==
  /\ (ctl.op = "readSock" /\ ctl.recvs > 0) => ctl.req.arg <= ctl.req.missing
  /\ Returned("readSock")
       => /\ Len(ctl.result.val) = ctl.rd.length
          /\ ctl.result.val = Take(ctl.wire0, ctl.rd.length)
          /\ wire = Drop(ctl.wire0, ctl.rd.length)

\* readSock returned three bytes that the stream delivered in several reads
C4_Witness ==
  /\ Returned("readSock")
  /\ ctl.rd.length = 3
  /\ ctl.recvs >= 2
  /\ Len(ctl.wire0) >= 3

\* C5: writeSock hands every byte to the stream once and in order: while it
\* runs, the bytes accepted so far followed by the bytes still to send are
\* the given string, and when it returns the accepted bytes are the string.
C5_WriteSockExact ==
  /\ (ctl.op = "writeSock" /\ ctl.pc = "send")
       => ctl.accepted \o ctl.wr.string = ctl.given
  /\ Returned("writeSock") => ctl.accepted = ctl.given

\* writeSock returned after the stream took three bytes in several writes
C5_Witness ==
  /\ Returned("writeSock")
  /\ Len(ctl.given) = 3
  /\ ctl.sends >= 2

\* C6: whatever the cause (zero bytes, timeout, stream error), the
\* ConnError of readSock / writeSock reports the k bytes transferred out of n.
C6_EveryFaultCounted ==
  ctl.lastFault.set
  => /\ ctl.lastFault.err.exc = "ConnError"
     /\ ctl.lastFault.err.val.counted
     /\ ctl.lastFault.err.val.count = ctl.lastFault.k
     /\ ctl.lastFault.err.val.total = ctl.lastFault.n

\* C7: over any sequence of close() calls on a Connection the quit handshake
\* is attempted at most once and the stream is shut down at most once, and
\* close() issues no send or receive on the stream once it is closed.
C7_QuitAtMostOnce ==
  /\ ctl.quitAttempts <= 1
  /\ sock.shutdowns <= 1
  /\ ~(lastIO.set /\ lastIO.closed /\ lastIO.op = "close")

\* C8: Connection.close() never raises, whatever fault the quit handshake
\* met, and the transport is closed when it ends.
C8_CloseNeverRaises ==
  Ended("close") => (ctl.result.exc = "none" /\ sock.closed)

\* C9: ReaderWriter.close() never raises and leaves the stream closed, also
\* when shutdown raised; over any sequence of calls the stream is shut down
\* and released at most once, and exactly once as soon as one call has ended.
C9_TransportClose ==
  /\ sock.shutdowns <= 1
  /\ sock.closes <= 1
  /\ sock.closes = sock.shutdowns
  /\ sock.closed <=> sock.closes = 1
  /\ Ended("rwclose")
       => (ctl.result.exc = "none" /\ sock.closed /\ sock.closes = 1)

\* ReaderWriter.close() has ended on an open stream whose shutdown raised
C9_Witness ==
  /\ Ended("rwclose")
  /\ ctl.shutdownRaised
  /\ sock.closed
  /\ sock.shutdowns = 1

\* C10: once the stream is closed, readSentence and writeSentence fail with
\* an error and issue no send or receive on the closed stream.
C10_NoUseAfterClose ==
  /\ ~(lastIO.set /\ lastIO.closed /\ lastIO.op \in {"readSentence", "writeSentence"})
  /\ (sock.closed /\ (Ended("readSentence") \/ Ended("writeSentence")))
       => ctl.result.exc # "none"

\* C11: setting the timeout to 0 or to a negative value raises a ValueError,
\* which is no connection error (no LibError), without any call on the
\* socket: the socket object, its timeout included, is as it was.
C11_InvalidTimeoutRejected ==
  (Ended("set_timeout") /\ ctl.tmo.arg <= 0)
  => /\ ctl.result.exc = "ValueError"
     /\ ~IsLibError(ctl.result.exc)
     /\ sock = ctl.tmo.before

\* a timeout of 0 was refused on a connection whose timeout had been set to
\* one second before
C11_Witness ==
  /\ Ended("set_timeout")
  /\ ctl.tmo.arg = 0
  /\ ctl.result.exc = "ValueError"
  /\ sock.settimeouts = 1
  /\ sock.timeout = TimeUnit

\* C12: on an open transport every timeout greater than 0 is accepted and
\* is the socket's timeout at once, only timeouts <= 0 are refused, and a
\* get returns the socket's timeout.
C12_PositiveTimeoutAccepted ==
  /\ (Ended("set_timeout") /\ ~ctl.tmo.before.closed)
       => /\ ctl.tmo.arg > 0 => (ctl.result.exc = "none" /\ sock.timeout = ctl.tmo.arg)
          /\ ctl.result.exc # "none" => ctl.tmo.arg <= 0
  /\ Ended("get_timeout")
       => (ctl.result.exc = "none" /\ ctl.result.val = sock.timeout)

\* C13: enclen raises the ConnError "unable to encode length", which names
\* the length, for every length outside 0 <= length < 268435456, and
\* returns bytes for every length inside.
C13_EnclenRange ==
  cout.encDone
  => IF 0 <= cin.length /\ cin.length < Tier4Limit
     THEN cout.enc.exc = "none"
     ELSE /\ cout.enc.exc = "ConnError"
          /\ cout.enc.val.msg = "unable to encode length"
          /\ cout.enc.val.value = cin.length

\* the bytes the call in progress, or the call that ended last, has taken
\* from the stream
Consumed == Len(ctl.wire0) - Len(wire)

\* the error is the framing error of getLength
IsFraming(res) ==
  res.exc = "ConnError" /\ res.val.msg = "unknown controll byte received"

\* the additional bytes of a length by its first byte: 0x00-0x7F none,
\* 0x80-0xBF one, 0xC0-0xDF two, 0xE0-0xEF three
AdditionalBytes(b) ==
  IF b <= 127 THEN 0 ELSE IF b <= 191 THEN 1 ELSE IF b <= 223 THEN 2 ELSE 3

\* C14: a getLength that has read a first byte in 0xF0-0xFF raises the
\* framing error and has read that byte only; with a first byte in 0x00-0xEF
\* it never raises the framing error, never reads more than the 0, 1, 2 or 3
\* additional bytes of the byte's range, and has read all of them when it
\* returns.
C14_ControlByte ==
  (ctl.op = "getLength" /\ Consumed >= 1)
  => LET b == ctl.wire0[1]
     IN IF b >= 240
        THEN Ended("getLength") /\ IsFraming(ctl.result) /\ Consumed = 1
        ELSE /\ Consumed <= 1 + AdditionalBytes(b)
             /\ Ended("getLength") => ~IsFraming(ctl.result)
             /\ Returned("getLength") => Consumed = 1 + AdditionalBytes(b)

\* getLength met 0xF0 on a stream that holds more bytes
C14_Witness ==
  /\ Ended("getLength")
  /\ ctl.wire0[1] = 240
  /\ IsFraming(ctl.result)
  /\ wire # <<>>
  /\ Consumed = 1

\* the kinds of the errors readSock and writeSock raise for peer closure,
\* timeout and stream error
ConnectionKinds ==
  {readSock_error(readSock_begin(1), cause).exc : cause \in {"eof", "timeout", "error"}}
  \cup {writeSock_error(writeSock_begin(<<0>>), cause).exc :
         cause \in {"eof", "timeout", "error"}}

\* C15: an error raised for the data (the unknown control byte of getLength,
\* the length of 268435456 or more of enclen, the invalid UTF-8 of decsnt)
\* is of a kind that no fault of the connection is raised with.
C15_DataFaultKind ==
  /\ \A n \in LenInputs :
       n >= Tier4Limit => enclen(n).exc \notin ConnectionKinds \cup {"none"}
  /\ ((Ended("getLength") \/ Ended("readSentence"))
         /\ ctl.result.exc # "none" /\ ~ctl.lastFault.set)
       => ctl.result.exc \notin ConnectionKinds

\* the bytes of enclen( n ) by the range of n
TierBytes(n) ==
  IF n <= 127 THEN 1 ELSE IF n <= 16383 THEN 2 ELSE IF n <= 2097151 THEN 3 ELSE 4

\* C16: for 0 <= n < 268435456 enclen( n ) has 1, 2, 3 or 4 bytes by the
\* range of n, and a getLength that returns on a stream beginning with
\* enclen( n ) has taken exactly those bytes and returns n.
C16_LengthOnStream ==
  Returned("getLength")
  => \A n \in LenInputs :
       (0 <= n /\ n < Tier4Limit)
       => LET encoded == enclen(n)
          IN /\ encoded.exc = "none"
             /\ Len(encoded.val) = TierBytes(n)
             /\ (/\ Len(ctl.wire0) >= Len(encoded.val)
                 /\ Take(ctl.wire0, Len(encoded.val)) = encoded.val)
                  => (ctl.result.val = n /\ Consumed = Len(encoded.val))

\* getLength returned the largest length from a stream that holds one more
\* byte after the four bytes of the length
C16_Witness ==
  /\ Returned("getLength")
  /\ ctl.result.val = Tier4Limit - 1
  /\ Consumed = 4
  /\ Len(wire) = 1

RECURSIVE FirstSentence(_)
\* the first sentence on the stream w, for words shorter than 128 bytes:
\* whether w holds it whole, its words as they lie on the stream, and the
\* bytes of w after its terminator
FirstSentence(w) ==
  IF w = <<>> THEN [whole |-> FALSE, words |-> <<>>, rest |-> <<>>]
  ELSE IF w[1] = 0 THEN [whole |-> TRUE, words |-> <<>>, rest |-> Tail(w)]
  ELSE IF w[1] >= 128 \/ Len(w) < 1 + w[1]
       THEN [whole |-> FALSE, words |-> <<>>, rest |-> <<>>]
  ELSE LET then == FirstSentence(Drop(w, 1 + w[1]))
       IN [whole |-> then.whole,
           words |-> << SubSeq(w, 2, 1 + w[1]) >> \o then.words,
           rest |-> then.rest]

\* words of single-byte characters
AsciiWords(snt) ==
  \A i \in 1..Len(snt) : \A j \in 1..Len(snt[i]) : snt[i][j] < 128

\* C17: a readSentence that returns has read the words that lie on the
\* stream before the first zero length prefix, returns them in that order,
\* and leaves on the stream every byte after that prefix; on a stream that
\* begins with 0x00 it returns the empty sequence; encsnt of the empty
\* sequence is the one byte 0x00.
C17_SentenceBoundary ==
  /\ encsnt(<<>>) = Ok(<<0>>)
  /\ Returned("readSentence")
       => LET first == FirstSentence(ctl.wire0)
          IN /\ first.whole
             /\ wire = first.rest
             /\ Len(ctl.result.val) = Len(first.words)
             /\ AsciiWords(first.words) => ctl.result.val = first.words
             /\ ctl.wire0[1] = 0 => ctl.result.val = <<>>

\* the second readSentence returned the one word of the second sentence and
\* left the byte after its terminator on the stream
C17_Witness ==
  /\ Returned("readSentence")
  /\ calls = 2
  /\ Len(ctl.result.val) = 1
  /\ Len(wire) = 1
  /\ Consumed = 3

\* C18: the step in which an underlying read or write of readSentence or
\* writeSentence transfers nothing (zero bytes, timeout, stream error) ends
\* the call: no further read or write is issued in it, and the call raises
\* the ConnError of that fault instead of returning.
C18_FaultEndsCall ==
  [][(/\ ctl.op \in {"readSentence", "writeSentence"}
      /\ ctl.pc \in {"recv", "send"}
      /\ wire' = wire)
     => (/\ ctl'.pc = "idle"
         /\ calls' = calls
         /\ ctl'.result.set
         /\ ctl'.lastFault.set
         /\ ctl'.result.exc = "ConnError"
         /\ ctl'.result.val = ctl'.lastFault.err.val)]_vars

\* readSentence raised after it had read a word of the sentence
C18_Witness ==
  /\ Ended("readSentence")
  /\ ctl.lastFault.set
  /\ ctl.sentence # <<>>
  /\ ctl.result.exc = "ConnError"

\* C19: on a lossless stream that carries sentences of ASCII words, the
\* empty word allowed, every readSentence returns the oldest sentence
\* written and not yet read, and the stream is empty once every sentence
\* written has been read.
C19_FramingAligned ==
  (Ended("readSentence") /\ ctl.expected.set /\ ~lost)
  => /\ ctl.result.exc = "none"
     /\ ctl.result.val = ctl.expected.snt
     /\ written = <<>> => wire = <<>>

\* C20: a readSock( n ) in progress has made fewer than n underlying reads,
\* each of which delivered at least one byte, and one that has ended has
\* made at most n; a writeSock( b ) likewise with len( b ) underlying
\* writes; readSock( 0 ) and writeSock( b'' ) return without any.
C20_BoundedIO ==
  /\ ctl.op = "readSock"
       => /\ ctl.pc \in {"idle", "recv"}
          /\ ctl.recvs <= ctl.rd.length
          /\ ctl.pc = "recv" => /\ ctl.recvs < ctl.rd.length
                                /\ ctl.recvs <= Len(ctl.delivered)
                                /\ Len(ctl.delivered) < ctl.rd.length
          /\ ctl.rd.length = 0 => (Returned("readSock") /\ ctl.recvs = 0)
  /\ ctl.op = "writeSock"
       => /\ ctl.pc \in {"idle", "send"}
          /\ ctl.sends <= Len(ctl.given)
          /\ ctl.pc = "send" => /\ ctl.sends < Len(ctl.given)
                                /\ ctl.sends <= Len(ctl.accepted)
                                /\ Len(ctl.accepted) < Len(ctl.given)
          /\ ctl.given = <<>> => (Returned("writeSock") /\ ctl.sends = 0)

\* writeSock raised at its third and last possible write of three bytes
C20_Witness ==
  /\ Ended("writeSock")
  /\ Len(ctl.given) = 3
  /\ ctl.sends = 3
  /\ Len(ctl.accepted) = 2
  /\ ctl.result.exc = "ConnError"

====
